---- MODULE Spec2Model ----
(***************************************************************************)
(* crunch: offload a cargo command to a remote build server.               *)
(*                                                                         *)
(* The model follows src/src/main.rs.  main() is a sequential pipeline     *)
(*   parse copy-back entries -> cargo metadata -> resolve build path ->    *)
(*   rsync sources -> ssh build command -> rsync artifacts back (one       *)
(*   thread per pair, joined) -> ssh cleanup (Tmp only)                    *)
(* Every external tool (cargo, rsync, ssh) is an opaque subprocess whose   *)
(* launch may fail and whose exit status is chosen nondeterministically.   *)
(***************************************************************************)
EXTENDS Integers, Sequences, FiniteSets, TLC

(***************************************************************************)
(* Bounds of the model.                                                    *)
(***************************************************************************)
\* longest --copy-back list explored
MaxPairs == 2
\* wall-clock readings (nanoseconds since the epoch) range over 0..MaxClock
MaxClock == 1
\* width of the hash values explored (the program's are 64 bits wide)
HashBits == 16

(***************************************************************************)
(* Program constants.                                                      *)
(***************************************************************************)
\* exit(-5): the local cargo metadata could not be launched
ExitMetadata == -5
\* exit(-5): ssh could not be launched
ExitRemoteCommand == -5
\* exit(-4): rsync of the sources could not be launched
ExitTransfer == -4
\* exit(-6): one or more copy-back transfers failed
ExitCopyBack == -6
\* status of a Rust process whose main thread panicked
ExitPanic == 101
\* status of a process whose main returned
ExitOk == 0

(***************************************************************************)
(* Input domains.                                                          *)
(***************************************************************************)
\* --copy-back entries: "s:d", "sd", "s:d:e"
Entries == { <<"s", ":", "d">>, <<"s", "d">>, <<"s", ":", "d", ":", "e">> }
\* --exclude lists a user may give: "x", ".git", "x,.git"
UserExcludes == { << "x" >>, << ".git" >>, << "x", ".git" >> }
\* statuses an rsync subprocess may exit with
RsyncExitCodes == {0, 23}
\* statuses an ssh subprocess may exit with: the remote command's status,
\* or 255 when ssh itself failed (could not reach the host)
SshExitCodes == {0, 101, 255}
\* project directories cargo metadata may report; <<>> is the root "/"
ProjectDirs == { <<"p">>, <<>> }
\* marks an --exclude option that was not given on the command line
NoArg == <<"<absent>">>

SeqsUpTo(S, n) == UNION { [1..k -> S] : k \in 0..n }

RemotePathBehaviors == {"Mirror", "Tmp", "Unique"}

Procs == {"metadata", "sync", "exec", "cleanup"}
\* the subprocesses whose exit status is kept as history
StatusProcs == {"sync", "exec", "cleanup"}

VARIABLES
    cmdline,          \* the options given on the command line
    args,             \* the parsed command line (struct Args)
    pc,               \* position of the main thread
    exitCode,         \* the i32 the process ended with (meaningful when pc = "exited")
    copy_back_pairs,  \* Vec<(String, String)> built from args.copy_back
    project_dir,      \* workspace_root reported by cargo metadata
    build_path,       \* the resolved remote path
    rsync_excludes,   \* the --exclude patterns handed to the source rsync
    proc,             \* state of each subprocess main waits for
    status,           \* exit status of each such subprocess
    launches,         \* how many times each such subprocess was started
    wpc,              \* position of each copy-back worker thread
    wresult,          \* what each worker's rsync_back.output() returned
    wstatus,          \* exit status of each worker's rsync
    wattempts,        \* how many times each worker started its rsync
    spawned,          \* number of worker threads spawned so far
    joined,           \* number of worker threads joined so far
    lock,             \* owner of the errors mutex: Free, HeldByMain or HeldBy(i)
    errors,           \* the Vec behind Arc<Mutex<..>>
    errorsRead,       \* TRUE once main has inspected the errors list
    clock,            \* the current reading of SystemTime::now(), in nanoseconds
    resolved,         \* the build-path resolutions made so far, oldest first
    composeArgs,      \* build_env, command, post_cargo and build_path of a composition
    command,          \* the remote command string composed from them
    shPos,            \* the remote shell: index of the next word of the command
    shLast,           \* the remote shell: exit status of the last command run
    shRan,            \* the remote shell: the commands run so far, with their status
    mfArgs,           \* the argument list given to extract_manifest_path
    mfResult,         \* the Option<String> it returned
    mfReturned        \* TRUE once it has returned

vars == << cmdline, args, pc, exitCode, copy_back_pairs, project_dir, build_path,
           rsync_excludes, proc, status, launches, wpc, wresult, wstatus, wattempts,
           spawned, joined, lock, errors, errorsRead, clock, resolved,
           composeArgs, command, shPos, shLast, shRan, mfArgs, mfResult, mfReturned >>

\* the state of one run of main
runVars == << cmdline, args, pc, exitCode, copy_back_pairs, project_dir, build_path,
              rsync_excludes, proc, status, launches, wpc, wresult, wstatus,
              wattempts, spawned, joined, lock, errors, errorsRead >>
\* the state of the specifications of the pure functions
pathVars == << clock, resolved >>
commandVars == << composeArgs, command, shPos, shLast, shRan >>
manifestVars == << mfArgs, mfResult, mfReturned >>
pureVars == << pathVars, commandVars, manifestVars >>

mainVars == << copy_back_pairs, project_dir, build_path, rsync_excludes >>
procVars == << proc, status, launches >>
workerVars == << wpc, wresult, wstatus, wattempts, spawned, joined, lock, errors, errorsRead >>

(***************************************************************************)
(* Pure helpers.                                                           *)
(***************************************************************************)

\* index of the first occurrence of c in s, 0 if there is none
RECURSIVE FindFrom(_, _, _)
FindFrom(s, c, i) ==
    IF i > Len(s) THEN 0
    ELSE IF s[i] = c THEN i
    ELSE FindFrom(s, c, i + 1)

\* str::splitn(2, c): at most two parts, split at the first c
SplitN2(s, c) ==
    LET i == FindFrom(s, c, 1) IN
    IF i = 0 THEN << s >>
    ELSE << SubSeq(s, 1, i - 1), SubSeq(s, i + 1, Len(s)) >>

\* the low eight bits of an exit code: what the parent process observes
ExitStatus(code) == code % 256

\* Utf8Path::file_name: the last component, none for the root
HasFileName(dir) == Len(dir) > 0
FileName(dir) == dir[Len(dir)]

\* Utf8PathBuf::to_string of an absolute path
PathString(dir) == << "/" >> \o dir

\* the numeric code of a path token, as fed to the hasher
TokenCode(t) == CASE t = "/" -> 47 [] t = "p" -> 112 [] OTHER -> 113

\* DefaultHasher over the path string: a deterministic value of HashBits bits.
\* The standard library's SipHash is represented by a polynomial hash with
\* the same signature: a function of the characters of the path string only.
RECURSIVE HashFrom(_, _, _)
HashFrom(s, i, h) ==
    IF i > Len(s) THEN h
    ELSE HashFrom(s, i + 1, (h * 31 + TokenCode(s[i])) % (2 ^ HashBits))

\* as uid_from_path, but the hasher is seeded with the time of the call
uid_from_path_Timed(dir) == HashFrom(PathString(dir), 1, 7 + clock)

\* lines 91-95
uid_from_path(dir) == HashFrom(PathString(dir), 1, 7)

\* #[arg(default_value = "target,.git", value_delimiter = ',')]
DefaultExclude == << "target", ".git" >>

\* Args::parse: an option that was not given takes its default value
ArgsParse(c) ==
    [ exclude     |-> IF c.exclude = NoArg THEN DefaultExclude ELSE c.exclude,
      copy_back   |-> c.copy_back,
      remote_path |-> c.remote_path ]

CmdLines ==
    [ exclude     : {NoArg} \cup UserExcludes,
      copy_back   : SeqsUpTo(Entries, MaxPairs),
      remote_path : RemotePathBehaviors ]

\* the match of lines 110-115: an entry is accepted iff splitn yields two parts
EntryAccepted(entry) == Len(SplitN2(entry, ":")) = 2

EntryPair(entry) == << SplitN2(entry, ":")[1], SplitN2(entry, ":")[2] >>

\* as ParsePairs, but an entry that is not accepted is dropped silently
ParsePairs_Skip(entries) ==
    LET valid == SelectSeq(entries, EntryAccepted) IN
    [ ok |-> TRUE, pairs |-> [k \in 1..Len(valid) |-> EntryPair(valid[k])] ]

\* lines 105-117: every entry becomes a pair; an entry that is not accepted
\* panics (ok = FALSE) and no list is built
ParsePairs(entries) ==
    IF \A k \in 1..Len(entries) : EntryAccepted(entries[k])
    THEN [ ok |-> TRUE, pairs |-> [k \in 1..Len(entries) |-> EntryPair(entries[k])] ]
    ELSE [ ok |-> FALSE, pairs |-> << >> ]

\* the --exclude arguments of the source rsync, in order
SyncExcludes(a) == << "target" >> \o a.exclude

\* ExitStatus::success
Success(s) == s = 0

\* as Message, but the text carries the position it is pushed at
Message_Numbered(i) ==
    [ kind   |-> IF wresult[i] = "Err" THEN "error" ELSE "exit_code",
      source |-> copy_back_pairs[i][1],
      dest   |-> copy_back_pairs[i][2],
      status |-> Len(errors) ]

\* the message a failed worker pushes
Message(i) ==
    [ kind   |-> IF wresult[i] = "Err" THEN "error" ELSE "exit_code",
      source |-> copy_back_pairs[i][1],
      dest   |-> copy_back_pairs[i][2],
      status |-> wstatus[i] ]

NWorkers == Len(copy_back_pairs)

\* owners of the errors mutex
Free == << >>
HeldByMain == << "main" >>
HeldBy(i) == << "worker", i >>

Exit(code) == pc' = "exited" /\ exitCode' = code

(***************************************************************************)
(* Initial state: right after Args::parse (line 102).                      *)
(***************************************************************************)
\* the locals of main before its first statement after Args::parse
RunStart ==
    /\ args = ArgsParse(cmdline)
    /\ pc = "parse_copy_back"
    /\ exitCode = 0
    /\ copy_back_pairs = << >>
    /\ project_dir = << >>
    /\ build_path = << >>
    /\ rsync_excludes = << >>
    /\ proc = [p \in Procs |-> "none"]
    /\ status = [p \in StatusProcs |-> 0]
    /\ launches = [p \in Procs |-> 0]
    /\ wpc = << >>
    /\ wresult = << >>
    /\ wstatus = << >>
    /\ wattempts = << >>
    /\ spawned = 0
    /\ joined = 0
    /\ lock = Free
    /\ errors = << >>
    /\ errorsRead = FALSE

\* nothing has been resolved yet
PathIdle ==
    /\ clock = 0
    /\ resolved = << >>

\* no command has been composed yet
CommandIdle ==
    /\ composeArgs = << >>
    /\ command = << >>
    /\ shPos = 1
    /\ shLast = 0
    /\ shRan = << >>

\* extract_manifest_path has not been called yet
ManifestIdle ==
    /\ mfArgs = << >>
    /\ mfResult = << >>
    /\ mfReturned = FALSE

PureIdle == PathIdle /\ CommandIdle /\ ManifestIdle

Init ==
    /\ cmdline \in CmdLines
    /\ RunStart
    /\ PureIdle

(***************************************************************************)
(* The main thread.                                                        *)
(***************************************************************************)

\* lines 105-117: build copy_back_pairs, panicking on an entry without ':'
ParseCopyBack ==
    /\ pc = "parse_copy_back"
    /\ IF ParsePairs(args.copy_back).ok
       THEN /\ copy_back_pairs' = ParsePairs(args.copy_back).pairs
            /\ pc' = "metadata"
            /\ UNCHANGED exitCode
       ELSE /\ Exit(ExitPanic)
            /\ UNCHANGED copy_back_pairs
    /\ UNCHANGED << pureVars, cmdline, args, project_dir, build_path, rsync_excludes >>
    /\ UNCHANGED procVars
    /\ UNCHANGED workerVars

\* Command::output(): start subprocess p; a launch error leaves it "failed"
Launched(p) ==
    /\ proc' = [proc EXCEPT ![p] = "running"]
    /\ launches' = [launches EXCEPT ![p] = @ + 1]
    /\ UNCHANGED status

LaunchFailed(p) ==
    /\ proc' = [proc EXCEPT ![p] = "failed"]
    /\ launches' = [launches EXCEPT ![p] = @ + 1]
    /\ UNCHANGED status

\* the subprocess p ends with status s and output() returns
Exited(p, s) ==
    /\ proc[p] = "running"
    /\ proc' = [proc EXCEPT ![p] = "exited"]
    /\ status' = [status EXCEPT ![p] = s]
    /\ UNCHANGED launches

\* lines 121-128: the first cargo metadata run; only a launch error exits
MetadataLaunch ==
    /\ pc = "metadata"
    /\ \/ Launched("metadata") /\ pc' = "metadata_wait" /\ UNCHANGED exitCode
       \/ LaunchFailed("metadata") /\ Exit(ExitMetadata)
    /\ UNCHANGED << pureVars, cmdline, args >>
    /\ UNCHANGED mainVars
    /\ UNCHANGED workerVars

\* output() returned Ok: the Output of cargo is dropped unread
MetadataExit ==
    /\ pc = "metadata_wait"
    /\ proc["metadata"] = "running"
    /\ proc' = [proc EXCEPT !["metadata"] = "exited"]
    /\ UNCHANGED << status, launches >>
    /\ pc' = "metadata_exec"
    /\ UNCHANGED << pureVars, cmdline, args, exitCode >>
    /\ UNCHANGED mainVars
    /\ UNCHANGED workerVars

\* lines 130-134: metadata_cmd.exec().unwrap() yields the workspace root or panics
MetadataExec ==
    /\ pc = "metadata_exec"
    /\ \/ \E d \in ProjectDirs :
            /\ project_dir' = d
            /\ pc' = "resolve"
            /\ UNCHANGED exitCode
       \/ Exit(ExitPanic) /\ UNCHANGED project_dir
    /\ UNCHANGED << pureVars, cmdline, args, copy_back_pairs, build_path, rsync_excludes >>
    /\ UNCHANGED procVars
    /\ UNCHANGED workerVars

\* lines 146-171: the build path of each RemotePathBehavior
TmpPath(dir, now) == << "/tmp/crunch-", FileName(dir), "-", now >>
UniquePath(dir) == << "~/crunch-builds/", FileName(dir), "-", uid_from_path(dir) >>
MirrorPath(dir) == PathString(dir)

Resolve ==
    /\ pc = "resolve"
    /\ \/ /\ args.remote_path = "Tmp"
          /\ IF HasFileName(project_dir)
             THEN /\ \E now \in 0..MaxClock : build_path' = TmpPath(project_dir, now)
                  /\ pc' = "sync"
                  /\ UNCHANGED exitCode
             ELSE Exit(ExitPanic) /\ UNCHANGED build_path
       \/ /\ args.remote_path = "Unique"
          /\ IF HasFileName(project_dir)
             THEN /\ build_path' = UniquePath(project_dir)
                  /\ pc' = "sync"
                  /\ UNCHANGED exitCode
             ELSE Exit(ExitPanic) /\ UNCHANGED build_path
       \/ /\ args.remote_path = "Mirror"
          /\ build_path' = MirrorPath(project_dir)
          /\ pc' = "sync"
          /\ UNCHANGED exitCode
    /\ UNCHANGED << pureVars, cmdline, args, copy_back_pairs, project_dir, rsync_excludes >>
    /\ UNCHANGED procVars
    /\ UNCHANGED workerVars

\* as SyncLaunch, but rsync is spawned and not waited for
SyncLaunch_Detached ==
    /\ pc = "sync"
    /\ rsync_excludes' = SyncExcludes(args)
    /\ \/ Launched("sync") /\ pc' = "exec" /\ UNCHANGED exitCode
       \/ LaunchFailed("sync") /\ Exit(ExitTransfer)
    /\ UNCHANGED << pureVars, cmdline, args, copy_back_pairs, project_dir, build_path >>
    /\ UNCHANGED workerVars

\* lines 176-206: rsync the sources; only a launch error exits
SyncLaunch ==
    /\ pc = "sync"
    /\ rsync_excludes' = SyncExcludes(args)
    /\ \/ Launched("sync") /\ pc' = "sync_wait" /\ UNCHANGED exitCode
       \/ LaunchFailed("sync") /\ Exit(ExitTransfer)
    /\ UNCHANGED << pureVars, cmdline, args, copy_back_pairs, project_dir, build_path >>
    /\ UNCHANGED workerVars

\* lines 202-208: where main goes once rsync has ended with status s;
\* output() returned Ok and the status is not looked at
AfterSync(s) == "exec"

SyncExit ==
    /\ pc = "sync_wait"
    /\ \E s \in RsyncExitCodes :
          /\ Exited("sync", s)
          /\ pc' = AfterSync(s)
    /\ UNCHANGED << pureVars, cmdline, args, exitCode >>
    /\ UNCHANGED mainVars
    /\ UNCHANGED workerVars

\* lines 208-238: ssh the build command; only a launch error exits
ExecLaunch ==
    /\ pc = "exec"
    /\ \/ Launched("exec") /\ pc' = "exec_wait" /\ UNCHANGED exitCode
       \/ LaunchFailed("exec") /\ Exit(ExitRemoteCommand)
    /\ UNCHANGED << pureVars, cmdline, args >>
    /\ UNCHANGED mainVars
    /\ UNCHANGED workerVars

\* as AfterExec, but a non-zero remote status ends the run early
AfterExec_Abort(s) == IF s = 0 THEN "copy_back" ELSE "return"

\* lines 234-240: where main goes once ssh has ended with status s;
\* output() returned Ok and the status is not looked at
AfterExec(s) == "copy_back"

ExecExit ==
    /\ pc = "exec_wait"
    /\ \E s \in SshExitCodes :
          /\ Exited("exec", s)
          /\ pc' = AfterExec(s)
    /\ UNCHANGED << pureVars, cmdline, args, exitCode >>
    /\ UNCHANGED mainVars
    /\ UNCHANGED workerVars

\* line 240: the copy-back block is entered only for a non-empty list;
\* line 243: a fresh, empty errors list behind its mutex
CopyBackNeeded(pairs) == pairs # << >>

CopyBackCheck ==
    /\ pc = "copy_back"
    /\ IF CopyBackNeeded(copy_back_pairs)
       THEN /\ pc' = "spawn"
            /\ wpc' = [i \in 1..NWorkers |-> "unspawned"]
            /\ wresult' = [i \in 1..NWorkers |-> "none"]
            /\ wstatus' = [i \in 1..NWorkers |-> 0]
            /\ wattempts' = [i \in 1..NWorkers |-> 0]
            /\ errors' = << >>
            /\ lock' = Free
       ELSE /\ pc' = "cleanup"
            /\ UNCHANGED << wpc, wresult, wstatus, wattempts, errors, lock >>
    /\ UNCHANGED << pureVars, cmdline, args, exitCode, spawned, joined, errorsRead >>
    /\ UNCHANGED mainVars
    /\ UNCHANGED procVars

\* lines 244-296: thread::spawn for the next pair, in list order
Spawn ==
    /\ pc = "spawn"
    /\ spawned < NWorkers
    /\ spawned' = spawned + 1
    /\ wpc' = [wpc EXCEPT ![spawned + 1] = "start"]
    /\ pc' = IF spawned + 1 = NWorkers THEN "join" ELSE "spawn"
    /\ UNCHANGED << pureVars, cmdline, args, exitCode, wresult, wstatus, wattempts,
                    joined, lock, errors, errorsRead >>
    /\ UNCHANGED mainVars
    /\ UNCHANGED procVars

\* as Joinable, but join does not wait for the thread
Joinable_NoWait(i) == TRUE

\* a thread can be joined once its closure has returned
Joinable(i) == wpc[i] = "done"

\* lines 298-300: join the threads in list order
Join ==
    /\ pc = "join"
    /\ joined < NWorkers
    /\ Joinable(joined + 1)
    /\ joined' = joined + 1
    /\ pc' = IF joined + 1 = NWorkers THEN "report" ELSE "join"
    /\ UNCHANGED << pureVars, cmdline, args, exitCode, wpc, wresult, wstatus, wattempts,
                    spawned, lock, errors, errorsRead >>
    /\ UNCHANGED mainVars
    /\ UNCHANGED procVars

\* line 302: errors.lock().unwrap()
ReportLock ==
    /\ pc = "report"
    /\ lock = Free
    /\ lock' = HeldByMain
    /\ pc' = "report_read"
    /\ UNCHANGED << pureVars, cmdline, args, exitCode, wpc, wresult, wstatus, wattempts,
                    spawned, joined, errors, errorsRead >>
    /\ UNCHANGED mainVars
    /\ UNCHANGED procVars

\* as ReportFails, but a non-empty report does not end the run
ReportFails_Never(errs) == FALSE

\* line 303: does the report ask for exit(-6)?
ReportFails(errs) == errs # << >>

\* lines 303-309: exit(-6) on a non-empty list, else drop the guard and go on
ReportRead ==
    /\ pc = "report_read"
    /\ errorsRead' = TRUE
    /\ IF ReportFails(errors)
       THEN Exit(ExitCopyBack) /\ UNCHANGED lock
       ELSE pc' = "cleanup" /\ lock' = Free /\ UNCHANGED exitCode
    /\ UNCHANGED << pureVars, cmdline, args, wpc, wresult, wstatus, wattempts,
                    spawned, joined, errors >>
    /\ UNCHANGED mainVars
    /\ UNCHANGED procVars

\* as CleanupNeeded, but every strategy other than Mirror is cleaned up
CleanupNeeded_NotMirror(a) == a.remote_path # "Mirror"

\* line 312: matches!(args.remote_path, RemotePathBehavior::Tmp)
CleanupNeeded(a) == a.remote_path = "Tmp"

\* lines 312-322: start the cleanup ssh; a launch error is only logged
CleanupLaunch ==
    /\ pc = "cleanup"
    /\ CleanupNeeded(args)
    /\ \/ Launched("cleanup") /\ pc' = "cleanup_wait"
       \/ LaunchFailed("cleanup") /\ pc' = "return"
    /\ UNCHANGED << pureVars, cmdline, args, exitCode >>
    /\ UNCHANGED mainVars
    /\ UNCHANGED workerVars

\* line 312, condition false
CleanupSkip ==
    /\ pc = "cleanup"
    /\ ~CleanupNeeded(args)
    /\ pc' = "return"
    /\ UNCHANGED << pureVars, cmdline, args, exitCode >>
    /\ UNCHANGED mainVars
    /\ UNCHANGED procVars
    /\ UNCHANGED workerVars

\* as CleanupExit, but a failed cleanup ends the process like a failed ssh
CleanupExit_Fatal ==
    /\ pc = "cleanup_wait"
    /\ \E s \in SshExitCodes :
          /\ Exited("cleanup", s)
          /\ IF s = 0
             THEN pc' = "return" /\ UNCHANGED exitCode
             ELSE Exit(ExitRemoteCommand)
    /\ UNCHANGED << pureVars, cmdline, args >>
    /\ UNCHANGED mainVars
    /\ UNCHANGED workerVars

\* lines 324-341: where main goes after the cleanup ssh ended with status s;
\* both Ok arms only log
AfterCleanup(s) == "return"

CleanupExit ==
    /\ pc = "cleanup_wait"
    /\ \E s \in SshExitCodes :
          /\ Exited("cleanup", s)
          /\ pc' = AfterCleanup(s)
    /\ UNCHANGED << pureVars, cmdline, args, exitCode >>
    /\ UNCHANGED mainVars
    /\ UNCHANGED workerVars

\* line 343: main returns
Return ==
    /\ pc = "return"
    /\ Exit(ExitOk)
    /\ UNCHANGED << pureVars, cmdline, args >>
    /\ UNCHANGED mainVars
    /\ UNCHANGED procVars
    /\ UNCHANGED workerVars

(***************************************************************************)
(* The copy-back worker threads (closure of lines 250-294).                *)
(***************************************************************************)
\* the threads of the Vec built at lines 244-296
Workers == DOMAIN wpc

Alive == pc # "exited"

\* line 268: rsync_back.output(); Err(e) when rsync cannot be launched
WorkerLaunch(i) ==
    /\ Alive
    /\ wpc[i] = "start"
    /\ wattempts' = [wattempts EXCEPT ![i] = @ + 1]
    /\ \/ wpc' = [wpc EXCEPT ![i] = "running"] /\ UNCHANGED wresult
       \/ /\ wpc' = [wpc EXCEPT ![i] = "failed"]
          /\ wresult' = [wresult EXCEPT ![i] = "Err"]
    /\ UNCHANGED << pureVars, cmdline, args, pc, exitCode, wstatus, spawned, joined,
                    lock, errors, errorsRead >>
    /\ UNCHANGED mainVars
    /\ UNCHANGED procVars

\* as TransferFailed, but every Ok(result) takes the success arm
TransferFailed_Never(s) == FALSE

\* lines 270-283: which arm of the match an Ok(result) takes
TransferFailed(s) == ~Success(s)

\* rsync exits with status s: Ok(result)
WorkerExit(i) ==
    /\ Alive
    /\ wpc[i] = "running"
    /\ \E s \in RsyncExitCodes :
          /\ wstatus' = [wstatus EXCEPT ![i] = s]
          /\ wresult' = [wresult EXCEPT ![i] = "Ok"]
          /\ wpc' = [wpc EXCEPT ![i] = IF TransferFailed(s) THEN "failed" ELSE "done"]
    /\ UNCHANGED << pureVars, cmdline, args, pc, exitCode, wattempts, spawned, joined,
                    lock, errors, errorsRead >>
    /\ UNCHANGED mainVars
    /\ UNCHANGED procVars

\* as WorkerLock, but the list is entered without waiting for the mutex
WorkerLock_NoGuard(i) ==
    /\ Alive
    /\ wpc[i] = "failed"
    /\ lock' = HeldBy(i)
    /\ wpc' = [wpc EXCEPT ![i] = "locked"]
    /\ UNCHANGED << pureVars, cmdline, args, pc, exitCode, wresult, wstatus, wattempts,
                    spawned, joined, errors, errorsRead >>
    /\ UNCHANGED mainVars
    /\ UNCHANGED procVars

\* lines 283, 291: errors.lock().unwrap()
WorkerLock(i) ==
    /\ Alive
    /\ wpc[i] = "failed"
    /\ lock = Free
    /\ lock' = HeldBy(i)
    /\ wpc' = [wpc EXCEPT ![i] = "locked"]
    /\ UNCHANGED << pureVars, cmdline, args, pc, exitCode, wresult, wstatus, wattempts,
                    spawned, joined, errors, errorsRead >>
    /\ UNCHANGED mainVars
    /\ UNCHANGED procVars

\* as WorkerPush, but the guard is kept after the push
WorkerPush_KeepLock(i) ==
    /\ Alive
    /\ wpc[i] = "locked"
    /\ errors' = Append(errors, Message(i))
    /\ wpc' = [wpc EXCEPT ![i] = "done"]
    /\ UNCHANGED << pureVars, cmdline, args, pc, exitCode, wresult, wstatus, wattempts,
                    spawned, joined, lock, errorsRead >>
    /\ UNCHANGED mainVars
    /\ UNCHANGED procVars

\* lines 283, 291: .push(message); the guard is dropped at the end of the statement
WorkerPush(i) ==
    /\ Alive
    /\ wpc[i] = "locked"
    /\ errors' = Append(errors, Message(i))
    /\ lock' = Free
    /\ wpc' = [wpc EXCEPT ![i] = "done"]
    /\ UNCHANGED << pureVars, cmdline, args, pc, exitCode, wresult, wstatus, wattempts,
                    spawned, joined, errorsRead >>
    /\ UNCHANGED mainVars
    /\ UNCHANGED procVars

Next ==
    \/ ParseCopyBack
    \/ MetadataLaunch
    \/ MetadataExit
    \/ MetadataExec
    \/ Resolve
    \/ SyncLaunch
    \/ SyncExit
    \/ ExecLaunch
    \/ ExecExit
    \/ CopyBackCheck
    \/ Spawn
    \/ Join
    \/ ReportLock
    \/ ReportRead
    \/ CleanupLaunch
    \/ CleanupSkip
    \/ CleanupExit
    \/ Return
    \/ \E i \in Workers : WorkerLaunch(i)
    \/ \E i \in Workers : WorkerExit(i)
    \/ \E i \in Workers : WorkerLock(i)
    \/ \E i \in Workers : WorkerPush(i)

Spec == Init /\ [][Next]_vars

(***************************************************************************)
(* Vocabulary of the properties.                                           *)
(***************************************************************************)

\* the pairs whose transfer failed: rsync could not be launched, or it ran
\* and exited with a non-zero status
FailedPairs ==
    { i \in DOMAIN wresult :
        \/ wresult[i] = "Err"
        \/ wresult[i] = "Ok" /\ wstatus[i] # 0 }

\* every pair of the list has had its transfer started exactly once
AllAttempted ==
    /\ DOMAIN wattempts = 1..NWorkers
    /\ \A i \in 1..NWorkers : wattempts[i] = 1

\* no transfer has been started
NoneAttempted == \A i \in DOMAIN wattempts : wattempts[i] = 0

\* every worker thread has returned
AllFinished ==
    /\ DOMAIN wpc = 1..NWorkers
    /\ \A i \in 1..NWorkers : wpc[i] = "done"

\* the number of positions of the failure list holding message m
Occurrences(m) == Cardinality({ k \in 1..Len(errors) : errors[k] = m })

Exited_ == pc = "exited"

\* main is past the copy-back stage
PastCopyBack ==
    \/ pc \in {"cleanup", "cleanup_wait", "return"}
    \/ Exited_ /\ exitCode = ExitOk

(***************************************************************************)
(* C1: with N pairs of which K fail, under every interleaving of the       *)
(* workers, all N transfers are attempted, the failure list read after the *)
(* join holds exactly K entries, one per failed pair, and the process      *)
(* exits with -6 if K > 0 and otherwise goes on to a successful end.       *)
(***************************************************************************)
C1_FailureReport ==
    /\ errorsRead =>
          /\ AllAttempted
          /\ Len(errors) = Cardinality(FailedPairs)
          /\ \A i \in FailedPairs :
                Occurrences(Message(i)) =
                   Cardinality({ j \in FailedPairs : Message(j) = Message(i) })
          /\ FailedPairs # {} => Exited_ /\ exitCode = ExitCopyBack
          /\ FailedPairs = {} => ~Exited_ \/ exitCode = ExitOk
    /\ PastCopyBack => AllAttempted /\ FailedPairs = {}
    /\ Exited_ /\ exitCode = ExitCopyBack => errorsRead /\ FailedPairs # {}

C1_Witness ==
    /\ errorsRead
    /\ NWorkers = 2
    /\ Cardinality(FailedPairs) = 1
    /\ Exited_

(***************************************************************************)
(* C2: no task is cancelled or skipped because another failed, and the     *)
(* failure list is inspected, and the retrieval exit status decided, only  *)
(* after every worker has finished.                                        *)
(***************************************************************************)
C2_ReadAfterJoin ==
    (\/ errorsRead
     \/ lock = HeldByMain
     \/ pc \in {"report", "report_read"}
     \/ Exited_ /\ exitCode = ExitCopyBack)
    => AllFinished /\ AllAttempted

C2_Witness ==
    /\ pc = "report_read"
    /\ NWorkers = 2
    /\ wresult[1] = "Err"
    /\ wresult[2] = "Ok"
    /\ wstatus[2] = 0

(***************************************************************************)
(* C3: any failure of the source sync (rsync cannot be launched, or runs   *)
(* and exits non-zero) aborts the pipeline with the 'could not transfer    *)
(* sources' status; the remote command, the retrieval and the cleanup are  *)
(* never started afterwards.                                               *)
(***************************************************************************)
SyncFailed ==
    \/ proc["sync"] = "failed"
    \/ proc["sync"] = "exited" /\ status["sync"] # 0

C3_SyncFailureAborts ==
    SyncFailed =>
       /\ launches["exec"] = 0
       /\ launches["cleanup"] = 0
       /\ NoneAttempted
       /\ Exited_ => exitCode = ExitTransfer

(***************************************************************************)
(* C4: any transport-level failure of the remote execution (ssh cannot be  *)
(* launched, or it cannot reach the host and ends with its own status 255) *)
(* is fatal: exit status 'could not execute remote command', no retrieval  *)
(* task and no cleanup afterwards.                                         *)
(***************************************************************************)
ExecTransportFailed ==
    \/ proc["exec"] = "failed"
    \/ proc["exec"] = "exited" /\ status["exec"] = 255

C4_TransportFailureFatal ==
    ExecTransportFailed =>
       /\ launches["cleanup"] = 0
       /\ spawned = 0
       /\ NoneAttempted
       /\ Exited_ => exitCode = ExitRemoteCommand

(***************************************************************************)
(* C5: when ssh was launched and the remote command exits non-zero, the    *)
(* run is not aborted: it ends as a run after a zero status does, with     *)
(* every retrieval attempted, the cleanup done under Tmp, and an exit      *)
(* status that the remote status does not change.                          *)
(***************************************************************************)
C5_RemoteStatusNotFatal ==
    proc["exec"] = "exited" /\ status["exec"] # 0 =>
       /\ pc # "exec_wait"
       /\ Exited_ =>
             /\ AllAttempted
             /\ exitCode = IF FailedPairs # {} THEN ExitCopyBack ELSE ExitOk
             /\ launches["cleanup"] = 1 <=>
                   args.remote_path = "Tmp" /\ FailedPairs = {}

C5_Witness ==
    /\ Exited_
    /\ proc["exec"] = "exited"
    /\ status["exec"] = 101
    /\ NWorkers = 1
    /\ exitCode = ExitOk
    /\ launches["cleanup"] = 1

(***************************************************************************)
(* C6: the failure classes 'could not query project metadata', 'could not  *)
(* transfer sources', 'could not execute remote command' and 'retrieval    *)
(* failed' each end the process with a non-zero status, the four statuses  *)
(* are pairwise distinct, and a fully successful run ends with zero.       *)
(***************************************************************************)
C6_DistinctExitStatuses ==
    Exited_ =>
       /\ proc["metadata"] = "failed" =>
             ExitStatus(exitCode) \notin
                { 0, ExitStatus(ExitTransfer), ExitStatus(ExitRemoteCommand),
                  ExitStatus(ExitCopyBack) }
       /\ proc["sync"] = "failed" =>
             /\ exitCode = ExitTransfer
             /\ ExitStatus(exitCode) \notin
                   { 0, ExitStatus(ExitRemoteCommand), ExitStatus(ExitCopyBack) }
       /\ proc["exec"] = "failed" =>
             /\ exitCode = ExitRemoteCommand
             /\ ExitStatus(exitCode) \notin
                   { 0, ExitStatus(ExitTransfer), ExitStatus(ExitCopyBack) }
       /\ errorsRead /\ errors # << >> =>
             /\ exitCode = ExitCopyBack
             /\ ExitStatus(exitCode) \notin
                   { 0, ExitStatus(ExitTransfer), ExitStatus(ExitRemoteCommand) }
       /\ pc = "exited" /\ proc["exec"] = "exited" /\ FailedPairs = {} =>
             ExitStatus(exitCode) = 0

(***************************************************************************)
(* C7: a copy-back list with at least one entry lacking ':' ends the run   *)
(* with a fatal configuration error before any remote interaction: no      *)
(* sync, no remote command, no retrieval, no cleanup is ever started.      *)
(***************************************************************************)
LacksColon(entry) == \A j \in 1..Len(entry) : entry[j] # ":"

SomeEntryLacksColon ==
    \E k \in 1..Len(cmdline.copy_back) : LacksColon(cmdline.copy_back[k])

C7_MalformedEntryFatal ==
    SomeEntryLacksColon =>
       /\ pc \in {"parse_copy_back", "exited"}
       /\ \A p \in Procs : launches[p] = 0
       /\ spawned = 0
       /\ NoneAttempted
       /\ Exited_ => exitCode = ExitPanic

C7_Witness ==
    /\ Exited_
    /\ exitCode = ExitPanic
    /\ Len(cmdline.copy_back) = 2
    /\ ~LacksColon(cmdline.copy_back[1])
    /\ LacksColon(cmdline.copy_back[2])

(***************************************************************************)
(* C8: with an empty retrieval-pair list and successful earlier stages,    *)
(* no transfer task is started and the run ends with status zero, under    *)
(* every path strategy.                                                    *)
(***************************************************************************)
EarlierStagesSucceeded ==
    /\ proc["sync"] = "exited" /\ status["sync"] = 0
    /\ proc["exec"] = "exited" /\ status["exec"] = 0

C8_EmptyListSucceeds ==
    cmdline.copy_back = << >> =>
       /\ spawned = 0
       /\ wpc = << >>
       /\ pc \notin {"spawn", "join", "report", "report_read"}
       /\ Exited_ /\ EarlierStagesSucceeded => exitCode = ExitOk

C8_Witness ==
    /\ cmdline.copy_back = << >>
    /\ EarlierStagesSucceeded
    /\ args.remote_path = "Tmp"
    /\ proc["cleanup"] = "exited"
    /\ status["cleanup"] # 0
    /\ Exited_
    /\ exitCode = ExitOk

(***************************************************************************)
(* C9: the remote cleanup is started only under the Tmp (ephemeral)        *)
(* strategy, at most once, and whatever its outcome (success, non-zero     *)
(* status, launch failure) the exit status of the process is unchanged.    *)
(***************************************************************************)
C9_CleanupBestEffort ==
    /\ launches["cleanup"] <= 1
    /\ launches["cleanup"] > 0 => args.remote_path = "Tmp"
    /\ proc["cleanup"] # "none" =>
          /\ exitCode = ExitOk
          /\ pc \in {"cleanup_wait", "return", "exited"}

C9_Witness ==
    /\ Exited_
    /\ proc["cleanup"] = "failed"
    /\ NWorkers = 1

(***************************************************************************)
(* C10: whatever --exclude list the user gives, the patterns handed to the *)
(* source rsync include both 'target' and '.git', and the user's patterns  *)
(* are appended to these defaults.                                         *)
(***************************************************************************)
Contains(seq, x) == \E k \in 1..Len(seq) : seq[k] = x

C10_DefaultsAlwaysExcluded ==
    launches["sync"] > 0 =>
       /\ Contains(rsync_excludes, "target")
       /\ Contains(rsync_excludes, ".git")
       /\ cmdline.exclude # NoArg =>
             \A k \in 1..Len(cmdline.exclude) :
                Contains(rsync_excludes, cmdline.exclude[k])

(***************************************************************************)
(* Build-path resolution as a function of its inputs (lines 146-171),      *)
(* applied several times: by one process in succession or by several       *)
(* processes.  Between two resolutions the system clock may show any       *)
(* reading: SystemTime is not monotonic and two reads may coincide.        *)
(***************************************************************************)
\* number of resolutions explored
MaxResolutions == 2

\* project directories resolved: /p, /q/p, /p-1/p, /p-1, /q
PathDirs == { <<"p">>, <<"q", "p">>, <<"p-1", "p">>, <<"p-1">>, <<"q">> }

\* the characters of a path component
CharsOf(w) == IF w = "p-1" THEN << "p", "-", "1" >> ELSE << w >>

\* Display of an unsigned integer: its decimal digits
Digit(d) ==
    CASE d = 0 -> "0" [] d = 1 -> "1" [] d = 2 -> "2" [] d = 3 -> "3" [] d = 4 -> "4"
      [] d = 5 -> "5" [] d = 6 -> "6" [] d = 7 -> "7" [] d = 8 -> "8" [] d = 9 -> "9"

RECURSIVE Digits(_)
Digits(n) == IF n < 10 THEN << Digit(n) >> ELSE Digits(n \div 10) \o << Digit(n % 10) >>

\* the components of a directory joined by '/'
RECURSIVE JoinPath(_)
JoinPath(dir) ==
    IF dir = << >> THEN << >>
    ELSE << "/" >> \o CharsOf(Head(dir)) \o JoinPath(Tail(dir))

\* the text that format! / to_string produce for a build path (lines 156, 165, 170)
PathText(bp) ==
    IF bp[1] \in {"/tmp/crunch-", "~/crunch-builds/"}
    THEN << bp[1] >> \o CharsOf(bp[2]) \o << bp[3] >> \o Digits(bp[4])
    ELSE IF Len(bp) = 1 THEN bp ELSE JoinPath(Tail(bp))

\* the match of lines 146-171
BuildPath(behavior, dir, now) ==
    CASE behavior = "Tmp" -> TmpPath(dir, now)
      [] behavior = "Unique" -> UniquePath(dir)
      [] behavior = "Mirror" -> MirrorPath(dir)

\* the main-run variables stay at the start of a run with no options
IdleCmdLine == [ exclude |-> NoArg, copy_back |-> << >>, remote_path |-> "Mirror" ]

RunIdle == cmdline = IdleCmdLine /\ RunStart

InitPath ==
    /\ RunIdle
    /\ CommandIdle
    /\ ManifestIdle
    /\ clock \in 0..MaxClock
    /\ resolved = << >>

\* time passes, or the clock is stepped: any other reading may follow
Tick ==
    /\ \E t \in 0..MaxClock : t # clock /\ clock' = t
    /\ UNCHANGED resolved
    /\ UNCHANGED << runVars, commandVars, manifestVars >>

\* one resolution of the build path of directory dir, at the current reading
ResolvePath ==
    /\ Len(resolved) < MaxResolutions
    /\ \E dir \in PathDirs, b \in RemotePathBehaviors :
          resolved' = Append(resolved,
                             [ dir      |-> dir,
                               behavior |-> b,
                               at       |-> clock,
                               path     |-> PathText(BuildPath(b, dir, clock)) ])
    /\ UNCHANGED clock
    /\ UNCHANGED << runVars, commandVars, manifestVars >>

NextPath == Tick \/ ResolvePath

SpecPath == InitPath /\ [][NextPath]_vars

\* the resolutions made with behavior b
ResolutionsOf(b) == { i \in DOMAIN resolved : resolved[i].behavior = b }

\* the hash of a path string, whoever computes it
StringHash(str) == HashFrom(str, 1, 7)

(***************************************************************************)
(* C11: resolving Unique (the persistent strategy) twice for the same      *)
(* project path, in the same or in separate runs, yields the same remote   *)
(* path; the path depends only on the directory name and the hash of the   *)
(* path string; different project paths yield different remote paths       *)
(* unless their directory names are equal and their hashes collide.        *)
(***************************************************************************)
C11_PersistentStable ==
    \A i, j \in ResolutionsOf("Unique") :
       LET di == resolved[i].dir
           dj == resolved[j].dir
           same == /\ FileName(di) = FileName(dj)
                   /\ StringHash(PathString(di)) = StringHash(PathString(dj))
       IN /\ di = dj => resolved[i].path = resolved[j].path
          /\ same <=> resolved[i].path = resolved[j].path

C11_Witness ==
    /\ Len(resolved) = 2
    /\ ResolutionsOf("Unique") = {1, 2}
    /\ resolved[1].dir = resolved[2].dir
    /\ resolved[1].at # resolved[2].at
    /\ resolved[1].path = resolved[2].path

(***************************************************************************)
(* C12: two resolutions of Tmp (the ephemeral strategy) for the same       *)
(* project, in rapid succession or by concurrent invocations, always       *)
(* produce two distinct remote paths.                                      *)
(***************************************************************************)
C12_EphemeralDistinct ==
    \A i, j \in ResolutionsOf("Tmp") :
       i # j /\ resolved[i].dir = resolved[j].dir =>
          resolved[i].path # resolved[j].path

(***************************************************************************)
(* Composition of the remote command (lines 208-224) and its evaluation by *)
(* the remote shell that ssh hands it to (lines 225-230).                  *)
(*                                                                         *)
(* A string is the sequence of its atoms: a space " ", a shell control     *)
(* operator ";" or "&&", or a piece of text without either.                *)
(***************************************************************************)
\* longest cargo argument list explored
MaxArgs == 2

\* values of --build-env: the default, and "A=1 B=2"
BuildEnvs == { << "RUST_BACKTRACE=1" >>, << "A=1", " ", "B=2" >> }
\* cargo arguments: "test", "--nocapture", and the unescaped "; true"
CargoArgs == { << "test" >>, << "--nocapture" >>, << ";", " ", "true" >> }
\* values of --post-cargo: "echo done" and "a; b"
PostCargos == { << "echo", " ", "done" >>, << "a", ";", " ", "b" >> }
\* resolved build paths: /p and /tmp/crunch-p-0
BuildPathTexts == { PathText(MirrorPath(<< "p" >>)), PathText(TmpPath(<< "p" >>, 0)) }
\* exit statuses of a command run by the remote shell
ShellStatuses == {0, 1}

\* remote.env (line 141)
RemoteEnv == << "~/.profile" >>

ComposeInputs ==
    [ build_env  : BuildEnvs,
      command    : SeqsUpTo(CargoArgs, MaxArgs) \ { << >> },
      post_cargo : {NoArg} \cup PostCargos,
      build_path : BuildPathTexts ]

\* [String]::join(" ")
RECURSIVE JoinSp(_)
JoinSp(list) ==
    IF list = << >> THEN << >>
    ELSE IF Len(list) = 1 THEN list[1]
    ELSE list[1] \o << " " >> \o JoinSp(Tail(list))

\* as build_command, but the profile is sourced before the exports
build_command_ProfileFirst(a) ==
    << "source", " " >> \o RemoteEnv
       \o << ";", " ", "export", " ", "CC=gcc", ";", " ", "export", " ", "CXX=g++",
             ";", " ", "cd", " " >>
       \o a.build_path \o << ";", " " >> \o a.build_env
       \o << " ", "cargo", " " >> \o JoinSp(a.command)

\* lines 208-214:
\* format!("export CC=gcc; export CXX=g++; source {}; cd {}; {} cargo {}", ..)
build_command(a) ==
    << "export", " ", "CC=gcc", ";", " ", "export", " ", "CXX=g++", ";", " ",
       "source", " " >>
       \o RemoteEnv \o << ";", " ", "cd", " " >> \o a.build_path
       \o << ";", " " >> \o a.build_env
       \o << " ", "cargo", " " >> \o JoinSp(a.command)

\* as PostSuffix, but the post command is chained with ';'
PostSuffix_Sequenced(post) ==
    << ";", " ", "echo", " ", "Executing", " ", "post-cargo", " ", "command",
       ";", " " >> \o post

\* lines 218-221: what format!("{} && echo Executing post-cargo command && {}", ..)
\* puts after the build command
PostSuffix(post) ==
    << " ", "&&", " ", "echo", " ", "Executing", " ", "post-cargo", " ", "command",
       " ", "&&", " " >> \o post

\* lines 217-224
ComposeCommand(a) ==
    IF a.post_cargo # NoArg
    THEN build_command(a) \o PostSuffix(a.post_cargo)
    ELSE build_command(a)

\* index of the first atom at or after i that is in stops, Len(str) + 1 if none
RECURSIVE Scan(_, _, _)
Scan(str, i, stops) ==
    IF i > Len(str) THEN Len(str) + 1
    ELSE IF str[i] \in stops THEN i
    ELSE Scan(str, i + 1, stops)

\* index of the first atom at or after i that is not a space
RECURSIVE SkipSpaces(_, _)
SkipSpaces(str, i) ==
    IF i > Len(str) THEN Len(str) + 1
    ELSE IF str[i] # " " THEN i
    ELSE SkipSpaces(str, i + 1)

\* where the shell goes on after the command that ends before the operator at
\* index e has exited with status st: a failed command skips the rest of its
\* && chain, up to the next ';'
ShellNext(str, e, st) ==
    IF e > Len(str) THEN e
    ELSE IF str[e] = ";" \/ st = 0 THEN e + 1
    ELSE Scan(str, e + 1, {";"}) + 1

InitCommand ==
    /\ RunIdle
    /\ PathIdle
    /\ ManifestIdle
    /\ composeArgs \in ComposeInputs
    /\ command = << >>
    /\ shPos = 1
    /\ shLast = 0
    /\ shRan = << >>

\* lines 208-224: compose the command string
Compose ==
    /\ command = << >>
    /\ command' = ComposeCommand(composeArgs)
    /\ UNCHANGED << composeArgs, shPos, shLast, shRan >>
    /\ UNCHANGED << runVars, pathVars, manifestVars >>

\* the remote shell runs the next simple command of the string
ShellRun ==
    /\ command # << >>
    /\ shPos <= Len(command)
    /\ LET start == SkipSpaces(command, shPos)
           stop  == Scan(command, shPos, {";", "&&"})
       IN \E st \in ShellStatuses :
             /\ shRan' = Append(shRan, [ start |-> start, stop |-> stop, status |-> st ])
             /\ shLast' = st
             /\ shPos' = ShellNext(command, stop, st)
    /\ UNCHANGED << composeArgs, command >>
    /\ UNCHANGED << runVars, pathVars, manifestVars >>

NextCommand == Compose \/ ShellRun

SpecCommand == InitCommand /\ [][NextCommand]_vars

\* the string the specification describes for the build command: the four
\* steps in order, separated by "; "
ExportsText == << "export", " ", "CC=gcc", ";", " ", "export", " ", "CXX=g++" >>
SourceText == << "source", " ", "~/.profile" >>
CdText(a) == << "cd", " " >> \o a.build_path
InvocationText(a) == a.build_env \o << " ", "cargo", " " >> \o JoinSp(a.command)
ExpectedBuild(a) ==
    ExportsText \o << ";", " " >> \o SourceText \o << ";", " " >> \o CdText(a)
        \o << ";", " " >> \o InvocationText(a)
MarkerText == << "echo", " ", "Executing", " ", "post-cargo", " ", "command" >>
ExpectedPost(a) ==
    ExpectedBuild(a) \o << " ", "&&", " " >> \o MarkerText \o << " ", "&&", " " >>
        \o a.post_cargo

Composed == command # << >>
ShellDone == Composed /\ shPos > Len(command)
\* index of the atom "cargo" that starts the build tool invocation
CargoIndex == Len(ExpectedBuild(composeArgs)) - Len(JoinSp(composeArgs.command)) - 1
\* index of the first atom of the post command
PostIndex == Len(ExpectedPost(composeArgs)) - Len(composeArgs.post_cargo) + 1
\* the commands the shell ran that contain the build tool invocation
InvocationRuns ==
    { k \in DOMAIN shRan : shRan[k].start <= CargoIndex /\ CargoIndex < shRan[k].stop }
\* the commands the shell ran that lie after the build command: marker and C
AfterBuildRuns == { k \in DOMAIN shRan : shRan[k].start > Len(ExpectedBuild(composeArgs)) }
\* marker and C run only after a build invocation that exited with status zero
PostGated ==
    \A k \in AfterBuildRuns :
        \E j \in InvocationRuns : j < k /\ shRan[j].status = 0
SemiFree(str) == \A i \in DOMAIN str : str[i] # ";"

\* C13: without a post command the composed command is exactly the exports,
\* then the profile source, then cd <path>, then "<build-env> cargo <arguments
\* joined by single spaces>", and nothing follows the build invocation.
C13_CompositionOrder ==
    (Composed /\ composeArgs.post_cargo = NoArg) =>
        /\ command = ExpectedBuild(composeArgs)
        /\ AfterBuildRuns = {}

C13_Witness ==
    /\ ShellDone
    /\ composeArgs.post_cargo = NoArg
    /\ composeArgs.build_env = << "RUST_BACKTRACE=1" >>
    /\ composeArgs.command = << << "test" >>, << "--nocapture" >> >>
    /\ InvocationRuns # {}

MaxManifestArgs == 3

\* "build", "--manifest-path", "--manifest-path=C", "--manifest-path=a=b", "C"
ManifestArgs ==
    { << "build" >>, << "--manifest-path" >>,
      << "--manifest-path", "=", "C" >>,
      << "--manifest-path", "=", "a", "=", "b" >>,
      << "C" >> }

\* Option<String>
None == << >>
Some(v) == << v >>

\* arg.starts_with("--manifest-path=")
StartsWithManifestEq(arg) ==
    Len(arg) >= 2 /\ arg[1] = "--manifest-path" /\ arg[2] = "="

\* as ManifestValue, but split at the last '='
ManifestValue_LastEq(arg) == << arg[Len(arg)] >>

\* arg.splitn(2, '=').nth(1).unwrap()
ManifestValue(arg) == SplitN2(arg, "=")[2]

\* the while-let loop over the iterator, from position i on
RECURSIVE ExtractFrom(_, _)
ExtractFrom(list, i) ==
    IF i > Len(list) THEN None
    ELSE IF list[i] = << "--manifest-path" >>
         THEN IF i + 1 <= Len(list) THEN Some(list[i + 1]) ELSE None
    ELSE IF StartsWithManifestEq(list[i]) THEN Some(ManifestValue(list[i]))
    ELSE ExtractFrom(list, i + 1)

extract_manifest_path(list) == ExtractFrom(list, 1)

InitManifest ==
    /\ RunIdle
    /\ PathIdle
    /\ CommandIdle
    /\ mfArgs \in SeqsUpTo(ManifestArgs, MaxManifestArgs)
    /\ mfResult = None
    /\ mfReturned = FALSE

\* one call of extract_manifest_path
Extract ==
    /\ ~mfReturned
    /\ mfResult' = extract_manifest_path(mfArgs)
    /\ mfReturned' = TRUE
    /\ UNCHANGED mfArgs
    /\ UNCHANGED << runVars, pathVars, commandVars >>

NextManifest == Extract

SpecManifest == InitManifest /\ [][NextManifest]_vars

\* the positions of the arguments of either form
IsLoneFlag(arg) == arg = << "--manifest-path" >>
ManifestForms == { i \in DOMAIN mfArgs : IsLoneFlag(mfArgs[i]) \/ StartsWithManifestEq(mfArgs[i]) }
FirstForm == CHOOSE i \in ManifestForms : \A j \in ManifestForms : i <= j

\* C15: the result is taken from the first argument of either form: the
\* argument after a lone --manifest-path (none if it is last), or the text
\* after the first '=' of --manifest-path=...; none if no argument has a form.
C15_FirstManifestPath ==
    mfReturned =>
        IF ManifestForms = {} THEN mfResult = None
        ELSE IF IsLoneFlag(mfArgs[FirstForm])
             THEN IF FirstForm = Len(mfArgs) THEN mfResult = None
                  ELSE mfResult = Some(mfArgs[FirstForm + 1])
        ELSE mfResult = Some(SubSeq(mfArgs[FirstForm], 3, Len(mfArgs[FirstForm])))

C15_Witness ==
    /\ mfReturned
    /\ Len(mfArgs) = 3
    /\ mfArgs[1] = << "build" >>
    /\ mfArgs[2] = << "--manifest-path", "=", "a", "=", "b" >>
    /\ mfArgs[3] = << "--manifest-path" >>
    /\ mfResult = Some(<< "a", "=", "b" >>)

(***************************************************************************)
(* Ordering of the stages, the errors mutex, cleanup and termination of    *)
(* the whole run (specification Spec).                                     *)
(***************************************************************************)
Running(p) == proc[p] = "running"
\* a retrieval task has been started
SomeTaskStarted == spawned > 0 \/ ~NoneAttempted

\* C16: the remote command is started only after the sync subprocess has
\* exited, no retrieval task is started before the remote subprocess has
\* exited, the cleanup is started only after every retrieval task has
\* finished, and at most one of sync, exec and cleanup is running at a time.
C16_StagesOrdered ==
    /\ launches["exec"] > 0 => proc["sync"] = "exited"
    /\ SomeTaskStarted => proc["exec"] = "exited"
    /\ launches["cleanup"] > 0 =>
          /\ proc["exec"] = "exited"
          /\ AllFinished
          /\ AllAttempted
    /\ Cardinality({ p \in StatusProcs : Running(p) }) <= 1

C16_Witness ==
    /\ Running("cleanup")
    /\ NWorkers = 2
    /\ AllFinished

\* the threads that are inside errors.lock() ... guard drop
InCritical ==
    { HeldBy(i) : i \in { w \in DOMAIN wpc : wpc[w] = "locked" } }
       \cup (IF pc = "report_read" \/ (Exited_ /\ errorsRead /\ exitCode = ExitCopyBack)
             THEN {HeldByMain} ELSE {})
\* the failed workers whose push is complete
Pushed == { i \in FailedPairs : wpc[i] = "done" }

\* C17: the failure list is accessed only under its lock: never two threads
\* (workers or main) inside at once, the lock names the one that is, and the
\* list holds one message for each worker that has pushed, none lost.
C17_MutualExclusion ==
    /\ Cardinality(InCritical) <= 1
    /\ InCritical = IF lock = Free THEN {} ELSE {lock}
    /\ Len(errors) = Cardinality(Pushed)
    /\ \A i \in Pushed :
          Occurrences(Message(i)) = Cardinality({ j \in Pushed : Message(j) = Message(i) })

C17_Witness ==
    /\ DOMAIN wpc = {1, 2}
    /\ wpc[1] = "failed"
    /\ wpc[2] = "locked"
    /\ lock = HeldBy(2)

ExpectedMessage(i) ==
    [ kind   |-> IF wresult[i] = "Ok" THEN "exit_code" ELSE "error",
      source |-> copy_back_pairs[i][1],
      dest   |-> copy_back_pairs[i][2],
      status |-> IF wresult[i] = "Ok" THEN wstatus[i] ELSE 0 ]
ReportedMessages == { errors[k] : k \in DOMAIN errors }
ExpectedMessages == { ExpectedMessage(i) : i \in FailedPairs }

\* C20: the multiset of messages in the final report and the exit status are
\* functions of the pairs and their transfer outcomes alone, whatever the
\* interleaving of the workers; only the order of the messages is free.
C20_ReportDetermined ==
    errorsRead =>
       /\ \A m \in ReportedMessages \cup ExpectedMessages :
             Occurrences(m) = Cardinality({ i \in FailedPairs : ExpectedMessage(i) = m })
       /\ Exited_ => exitCode = IF FailedPairs = {} THEN ExitOk ELSE ExitCopyBack

\* both failed, and the report lists the second pair first
C20_Witness ==
    /\ errorsRead
    /\ Exited_
    /\ NWorkers = 2
    /\ FailedPairs = {1, 2}
    /\ ExpectedMessage(1) # ExpectedMessage(2)
    /\ errors = << ExpectedMessage(2), ExpectedMessage(1) >>

(***************************************************************************)
(* Termination.  Every blocking call of the main thread returns once its   *)
(* subprocess has exited, and the scheduler runs every thread that can     *)
(* take a step: weak fairness of the main thread and of each worker.       *)
(***************************************************************************)
MainStep ==
    \/ ParseCopyBack
    \/ MetadataLaunch
    \/ MetadataExit
    \/ MetadataExec
    \/ Resolve
    \/ SyncLaunch
    \/ SyncExit
    \/ ExecLaunch
    \/ ExecExit
    \/ CopyBackCheck
    \/ Spawn
    \/ Join
    \/ ReportLock
    \/ ReportRead
    \/ CleanupLaunch
    \/ CleanupSkip
    \/ CleanupExit
    \/ Return

WorkerStep(i) ==
    /\ i \in Workers
    /\ \/ WorkerLaunch(i)
       \/ WorkerExit(i)
       \/ WorkerLock(i)
       \/ WorkerPush(i)

Fairness == WF_vars(MainStep) /\ \A i \in 1..MaxPairs : WF_vars(WorkerStep(i))

\* the exclude list only reaches the arguments of rsync (lines 184-190) and no
\* branch depends on it: termination is checked for the runs without --exclude
InitFair == Init /\ cmdline.exclude = NoArg

FairSpec == InitFair /\ [][Next]_vars /\ Fairness

\* the exit codes the program can end with
ExitCodes == {ExitOk, ExitPanic, ExitMetadata, ExitTransfer, ExitRemoteCommand, ExitCopyBack}

\* C19: when every subprocess exits and the threads are scheduled fairly, the
\* run always reaches a terminal state with a definite exit status; the join
\* never waits forever on the errors lock.
C19_Terminates == <>(Exited_ /\ exitCode \in ExitCodes)

\* all pairs failed, both workers went through the lock, and main has ended
C19_Witness ==
    /\ Exited_
    /\ NWorkers = 2
    /\ FailedPairs = {1, 2}
    /\ Len(errors) = 2
    /\ joined = 2

====
